---- MODULE Spec2Model ----
(***************************************************************************)
(* A model of python-amazon-mws: the core client of mws/mws.py (MWS) and   *)
(* the XML normalisation of mws/utils/xml.py.                              *)
(*                                                                         *)
(* Python strings that the code tests for emptiness or concatenates are    *)
(* sequences of tokens: "" is <<>>, "ListOrders" is <<"ListOrders">> and   *)
(* "{}ByNextToken".format(a) is a \o <<"ByNextToken">>.  Dictionary keys   *)
(* and symbolic names (exception kinds, class names) are TLA+ strings.     *)
(* A parameter value is a record [t, v]: its Python type and its text.     *)
(***************************************************************************)
EXTENDS Integers, Sequences, FiniteSets, TLC

VARIABLES
    client,     \* the MWS instance: the fields __init__ sets
    call,       \* the public method last called, with its arguments
    req,        \* the make_request invocation that call led to, and its params
    response,   \* the HTTP response requests.request returned, if any
    outcome,    \* what the call did: returned params, a parsed result, or raised
    parsed,     \* the wrapper object make_request returned
    wire,       \* the last request put on the wire
    nSigned,    \* calc_signature calls so far
    nHttp,      \* requests.request calls so far
    xml         \* mws_xml_to_dict: its document, xmltodict's mapping, its result

vars == <<client, call, req, response, outcome, parsed, wire, nSigned, nHttp, xml>>

clientVars == <<client, call, req, response, outcome, parsed, wire, nSigned, nHttp>>

(***************************************************************************)
(* Bounds of the model.                                                    *)
(***************************************************************************)
MaxRequests == 2

(***************************************************************************)
(* Python values.                                                          *)
(***************************************************************************)
Str(s) == [t |-> "str", v |-> s]

None == [t |-> "none", v |-> <<>>]

Bool(b) == [t |-> "bool", v |-> <<b>>]

List(x) == [t |-> "list", v |-> <<x>>]

EmptyDict == [k \in {} |-> None]

\* dict.update: the entries of e replace and extend those of d
Update(d, e) ==
    [k \in (DOMAIN d) \cup (DOMAIN e) |-> IF k \in DOMAIN e THEN e[k] ELSE d[k]]

\* bool(s) of a Python string
Truthy(s) == s # <<>>

(***************************************************************************)
(* Marketplaces: region code -> (endpoint, marketplace id).                *)
(***************************************************************************)
\* an endpoint URL is its scheme followed by its host
Endpoint(e, m) == [endpoint |-> e, marketplace_id |-> m]

Marketplaces ==
    ("AE" :> Endpoint(<<"https://", "mws.amazonservices.ae">>, "A2VIGQ35RCS4UG")) @@
    ("AU" :> Endpoint(<<"https://", "mws.amazonservices.com.au">>, "A39IBJ37TRP1C6")) @@
    ("BR" :> Endpoint(<<"https://", "mws.amazonservices.com">>, "A2Q3Y263D00KWC")) @@
    ("CA" :> Endpoint(<<"https://", "mws.amazonservices.ca">>, "A2EUQ1WTGCTBG2")) @@
    ("DE" :> Endpoint(<<"https://", "mws-eu.amazonservices.com">>, "A1PA6795UKMFR9")) @@
    ("EG" :> Endpoint(<<"https://", "mws-eu.amazonservices.com">>, "ARBP9OOSHTCHU")) @@
    ("ES" :> Endpoint(<<"https://", "mws-eu.amazonservices.com">>, "A1RKKUPIHCS9HS")) @@
    ("FR" :> Endpoint(<<"https://", "mws-eu.amazonservices.com">>, "A13V1IB3VIYZZH")) @@
    ("GB" :> Endpoint(<<"https://", "mws-eu.amazonservices.com">>, "A1F83G8C2ARO7P")) @@
    ("IN" :> Endpoint(<<"https://", "mws.amazonservices.in">>, "A21TJRUUN4KGV")) @@
    ("IT" :> Endpoint(<<"https://", "mws-eu.amazonservices.com">>, "APJ6JRA9NG5V4")) @@
    ("JP" :> Endpoint(<<"https://", "mws.amazonservices.jp">>, "A1VC38T7YXB528")) @@
    ("MX" :> Endpoint(<<"https://", "mws.amazonservices.com.mx">>, "A1AM78C64UM0Y8")) @@
    ("NL" :> Endpoint(<<"https://", "mws-eu.amazonservices.com">>, "A1805IZSGTT6HS")) @@
    ("SA" :> Endpoint(<<"https://", "mws-eu.amazonservices.com">>, "A17E79C6D8DWNP")) @@
    ("SG" :> Endpoint(<<"https://", "mws-fe.amazonservices.com">>, "A19VAU5U5O7RUS")) @@
    ("TR" :> Endpoint(<<"https://", "mws-eu.amazonservices.com">>, "A33AVAJ2PDY3EV")) @@
    ("UK" :> Endpoint(<<"https://", "mws-eu.amazonservices.com">>, "A1F83G8C2ARO7P")) @@
    ("US" :> Endpoint(<<"https://", "mws.amazonservices.com">>, "ATVPDKIKX0DER"))

(***************************************************************************)
(* The class attributes of MWS, and of an API subclass that overrides them *)
(* the way the comments of the base class ask for: its own URI, its own    *)
(* NEXT_TOKEN_OPERATIONS, and ACCOUNT_TYPE = "Merchant".                   *)
(***************************************************************************)
ClassAttrs ==
    [MWS |-> [URI |-> <<"/">>,
              VERSION |-> <<"2009-01-01">>,
              NAMESPACE |-> <<>>,
              NEXT_TOKEN_OPERATIONS |-> {},
              ACCOUNT_TYPE |-> "SellerId"],
     Orders |-> [URI |-> <<"/Orders/2011-01-01">>,
                 VERSION |-> <<"2011-01-01">>,
                 NAMESPACE |-> <<"{https://mws.amazonservices.com/Orders/2011-01-01}">>,
                 NEXT_TOKEN_OPERATIONS |-> {<<"ListOrders">>},
                 ACCOUNT_TYPE |-> "Merchant"]]

(***************************************************************************)
(* The values the variables hold when there is nothing to hold.            *)
(***************************************************************************)
NoClient ==
    [constructed |-> FALSE, cls |-> "MWS", access_key |-> <<>>, account_id |-> <<>>,
     secret_key |-> <<>>, auth_token |-> <<>>, version |-> <<>>, uri |-> <<>>,
     domain |-> <<>>, proxy |-> <<>>, test_request_params |-> FALSE]

\* **kwargs of make_request with none of result_key, timeout, body, extra_headers
NoKwargs ==
    [has_result_key |-> FALSE, result_key |-> <<>>, has_timeout |-> FALSE, timeout |-> 0,
     body |-> <<>>, extra_headers |-> EmptyDict]

NoCall ==
    [op |-> "", action |-> <<>>, next_token |-> <<>>, region |-> "",
     is_dict |-> FALSE, parameters |-> EmptyDict]

NoReq ==
    [entered |-> FALSE, action |-> <<>>, extra_data |-> EmptyDict, method |-> "",
     kwargs |-> NoKwargs, cleaned |-> FALSE, params |-> EmptyDict]

NoResponse == [received |-> FALSE, status |-> 0, body |-> "", md5 |-> "absent"]

NoOutcome ==
    [kind |-> "none", exc |-> "", msg |-> <<>>, response |-> FALSE, value |-> EmptyDict]

NoParsed == [via |-> "", result_key |-> <<>>, response |-> FALSE]

NoSignature == [key |-> <<>>, method |-> "", host |-> <<>>, uri |-> <<>>, description |-> {}]

NoProxies == [http |-> <<>>, https |-> <<>>]

NoWire ==
    [method |-> "", domain |-> <<>>, uri |-> <<>>, description |-> {},
     signature |-> NoSignature, headers |-> EmptyDict, data |-> <<>>,
     proxies |-> NoProxies, timeout |-> 0]

NoXml ==
    [called |-> FALSE, doc |-> <<>>, stripped |-> <<>>, xmldict |-> <<>>,
     exc |-> "", result |-> <<>>]

Raise(exc, msg, resp) ==
    [kind |-> "raise", exc |-> exc, msg |-> msg, response |-> resp, value |-> EmptyDict]

(***************************************************************************)
(* mws.utils: clean_param_value, utc_timestamp, DictWrapper, DataWrapper   *)
(* and RequestParameter are imported by mws.py from modules of the package *)
(* that are described by the specification.                                *)
(***************************************************************************)
\* urllib.parse.quote(s, safe="-_.~") on the strings of the model: a token with a
\* reserved character is replaced by its percent-encoding
QuoteToken(tok) ==
    CASE tok = "2020-01-01T00:00:00" -> "2020-01-01T00%3A00%3A00"
      [] tok = "Get Report" -> "Get%20Report"
      [] tok = "abc==" -> "abc%3D%3D"
      [] OTHER -> tok

quote(s) == [i \in DOMAIN s |-> QuoteToken(s[i])]

\* str(True).lower(), str(False).lower()
clean_bool(v) == [i \in DOMAIN v |-> IF v[i] = "True" THEN "true" ELSE "false"]

\* clean_param_value(val): [exc, value]; a composite value is a ValueError
clean_param_value(val) ==
    CASE val.t = "list" -> [exc |-> "ValueError", value |-> <<>>]
      [] val.t = "bool" -> [exc |-> "", value |-> clean_bool(val.v)]
      [] OTHER -> [exc |-> "", value |-> quote(val.v)]

\* utc_timestamp(): the current UTC instant, ISO-8601
utc_timestamp == <<"2020-01-01T00:00:00">>

(***************************************************************************)
(* mws.py: module-level functions.                                         *)
(***************************************************************************)
\* calc_request_description(params): the "key=value" items in the order of the
\* sorted keys; the set of the items is that string up to the fixed order
calc_request_description(params) == {<<k, params[k]>> : k \in DOMAIN params}

\* the filter with its second test forgotten: v is not None
NotEmptyValueNoneOnly(val) == val.t # "none"

\* the filter of clean_params: v is not None and v != ""
NotEmptyValue(val) == val.t # "none" /\ ~(val.t = "str" /\ val.v = <<>>)

\* clean_params without its try/except: the ValueError reaches the caller
CleanParamsErrorUnwrapped == "ValueError"

\* the exception clean_params raises for a ValueError of clean_param_value
CleanParamsError == "MWSError"

\* clean_params(params): [exc, value]
clean_params(params) ==
    LET kept == {k \in DOMAIN params : NotEmptyValue(params[k])}
    IN  IF \E k \in kept : clean_param_value(params[k]).exc = "ValueError"
        THEN [exc |-> CleanParamsError, value |-> EmptyDict]
        ELSE [exc |-> "", value |-> [k \in kept |-> clean_param_value(params[k]).value]]

(***************************************************************************)
(* class MWS.                                                              *)
(***************************************************************************)
\* get_default_params with the SignatureMethod entry left out
get_default_params_without_method(c, action) ==
    LET params ==
            ("Action" :> Str(action)) @@
            ("AWSAccessKeyId" :> Str(c.access_key)) @@
            (ClassAttrs[c.cls].ACCOUNT_TYPE :> Str(c.account_id)) @@
            ("SignatureVersion" :> Str(<<"2">>)) @@
            ("Timestamp" :> Str(utc_timestamp)) @@
            ("Version" :> Str(c.version))
    IN  IF Truthy(c.auth_token)
        THEN ("MWSAuthToken" :> Str(c.auth_token)) @@ params
        ELSE params

\* MWS.get_default_params(action)
get_default_params(c, action) ==
    LET params ==
            ("Action" :> Str(action)) @@
            ("AWSAccessKeyId" :> Str(c.access_key)) @@
            (ClassAttrs[c.cls].ACCOUNT_TYPE :> Str(c.account_id)) @@
            ("SignatureVersion" :> Str(<<"2">>)) @@
            ("Timestamp" :> Str(utc_timestamp)) @@
            ("Version" :> Str(c.version)) @@
            ("SignatureMethod" :> Str(<<"HmacSHA256">>))
    IN  IF Truthy(c.auth_token)
        THEN ("MWSAuthToken" :> Str(c.auth_token)) @@ params
        ELSE params

\* MWS.calc_signature(method, request_description): the HMAC-SHA256 of the four
\* lines under the secret key, as the tuple of what it is computed from
calc_signature(c, method, request_description) ==
    [key |-> c.secret_key,
     method |-> method,
     host |-> SelectSeq(c.domain, LAMBDA t : t # "https://"),
     uri |-> c.uri,
     description |-> request_description]

\* a check of the status that takes only 5xx for an error
raise_for_status_server_errors(status) == 500 <= status /\ status < 600

\* MWS.get_proxies(): None (here <<>>) for both schemes unless a proxy is configured
get_proxies(c) ==
    IF Truthy(c.proxy)
    THEN [http |-> <<"http://">> \o c.proxy, https |-> <<"https://">> \o c.proxy]
    ELSE NoProxies

\* __version__
Version == <<"1.0.0dev14">>

\* the default of kwargs.get("timeout", 300)
DefaultTimeout == 300

\* the headers of the request: User-Agent, then extra_headers over it
request_headers(kwargs) ==
    Update("User-Agent" :> (<<"python-amazon-mws/">> \o Version \o <<" (Language=Python)">>),
           kwargs.extra_headers)

\* response.raise_for_status() of requests: HTTPError for a 4xx or 5xx status
raise_for_status(status) == 400 <= status /\ status < 600

\* kwargs.get("result_key", extra_data.get("Action") + "Result"): Python evaluates
\* the default before the lookup; None + "Result" (and any non-string) is a TypeError
result_key_of(kwargs, extra_data) ==
    IF "Action" \notin DOMAIN extra_data \/ extra_data["Action"].t # "str"
    THEN [exc |-> "TypeError", value |-> <<>>]
    ELSE [exc |-> "",
          value |-> IF kwargs.has_result_key
                    THEN kwargs.result_key
                    ELSE extra_data["Action"].v \o <<"Result">>]

\* DictWrapper(data, result_key) on the body as bytes or as text: "" when it parses,
\* TypeError for data of the wrong shape, XMLError for a structural parse failure
DictWrapper(form, body) ==
    CASE body = "XmlBytes" -> ""
      [] body = "XmlText" -> IF form = "bytes" THEN "TypeError" ELSE ""
      [] body = "CsvText" -> IF form = "bytes" THEN "TypeError" ELSE "XMLError"
      [] OTHER -> "XMLError"

\* DataWrapper(data, headers): the content-md5 header, when present, is compared
\* with calc_md5(data)
DataWrapper(resp) == IF resp.md5 = "mismatch" THEN "MWSError" ELSE ""

IntegrityMessage == <<"Wrong Content length, maybe amazon error...">>

\* the try/except of make_request around the wrappers: [exc, msg, via]
interpret(resp) ==
    LET generic ==
            IF DataWrapper(resp) = ""
            THEN [exc |-> "", msg |-> <<>>, via |-> "DataWrapper"]
            ELSE [exc |-> "MWSError", msg |-> IntegrityMessage, via |-> ""]
        first == DictWrapper("bytes", resp.body)
        second == DictWrapper("text", resp.body)
    IN  CASE first = "" -> [exc |-> "", msg |-> <<>>, via |-> "DictWrapper(bytes)"]
          [] first = "XMLError" -> generic
          [] OTHER ->
                CASE second = "" -> [exc |-> "", msg |-> <<>>, via |-> "DictWrapper(text)"]
                  [] second = "XMLError" -> generic
                  [] OTHER -> [exc |-> "TypeError", msg |-> <<>>, via |-> ""]

\* whether make_request stops at the testing flag
ReturnsParams(c) == c.test_request_params

\* MWS.make_request(action, extra_data, method, **kwargs), with the response the
\* server gives if it is asked: what the call leaves in req, response, outcome,
\* parsed and wire, and whether it signed and sent a request
make_request(c, action, extra_data, method, kwargs, resp) ==
    LET params == Update(get_default_params(c, action), extra_data)
        cl == clean_params(params)
        entered == [entered |-> TRUE, action |-> action, extra_data |-> extra_data,
                    method |-> method, kwargs |-> kwargs,
                    cleaned |-> cl.exc = "", params |-> cl.value]
        quiet == [req |-> entered, response |-> NoResponse, outcome |-> NoOutcome,
                  parsed |-> NoParsed, wire |-> NoWire, sent |-> 0]
        description == calc_request_description(cl.value)
        signature == calc_signature(c, method, description)
        asked == [quiet EXCEPT
                    !.response = [received |-> TRUE, status |-> resp.status,
                                  body |-> resp.body, md5 |-> resp.md5],
                    !.wire = [method |-> method, domain |-> c.domain, uri |-> c.uri,
                              description |-> description, signature |-> signature,
                              headers |-> request_headers(kwargs), data |-> kwargs.body,
                              proxies |-> get_proxies(c),
                              timeout |-> IF kwargs.has_timeout THEN kwargs.timeout
                                          ELSE DefaultTimeout],
                    !.sent = 1]
        rk == result_key_of(kwargs, extra_data)
        got == interpret(resp)
    IN  CASE cl.exc # "" ->
                [quiet EXCEPT !.outcome = Raise(cl.exc, <<"Cannot clean parameter value">>, FALSE)]
          [] cl.exc = "" /\ ReturnsParams(c) ->
                [quiet EXCEPT !.outcome = [NoOutcome EXCEPT !.kind = "params", !.value = cl.value]]
          [] OTHER ->
                CASE raise_for_status(resp.status) ->
                        [asked EXCEPT !.outcome = Raise("MWSError", <<resp.body>>, TRUE)]
                  [] ~raise_for_status(resp.status) /\ rk.exc # "" ->
                        [asked EXCEPT !.outcome = Raise(rk.exc, <<>>, FALSE)]
                  [] ~raise_for_status(resp.status) /\ rk.exc = "" /\ got.exc # "" ->
                        [asked EXCEPT !.outcome = Raise(got.exc, got.msg, FALSE)]
                  [] OTHER ->
                        [asked EXCEPT
                            !.outcome = [NoOutcome EXCEPT !.kind = "parsed"],
                            !.parsed = [via |-> got.via, result_key |-> rk.value,
                                        response |-> TRUE]]

\* RequestParameter(value=parameters).to_dict() on a mapping of scalars and of
\* sequences of scalars: a scalar under key K gives {K: value}, a sequence under
\* key K gives K.1, K.2, ...
IndexedKey(k, i) ==
    CASE k = "MarketplaceId.Id" /\ i = 1 -> "MarketplaceId.Id.1"
      [] k = "MarketplaceId.Id" /\ i = 2 -> "MarketplaceId.Id.2"
      [] OTHER -> k

to_dict(p) ==
    LET scalars == {<<k, 0>> : k \in {x \in DOMAIN p : p[x].t # "list"}}
        elements == UNION {{<<k, i>> : i \in 1..Len(p[k].v)} :
                            k \in {x \in DOMAIN p : p[x].t = "list"}}
        items == scalars \cup elements
        name(it) == IF it[2] = 0 THEN it[1] ELSE IndexedKey(it[1], it[2])
        val(it) == IF it[2] = 0 THEN p[it[1]] ELSE Str(<<p[it[1]].v[it[2]]>>)
    IN  [n \in {name(it) : it \in items} |-> val(CHOOSE it \in items : name(it) = n)]

\* the exception generic_request raises for its two argument checks
GenericRequestError == "ValueError"

\* the exception __init__ and action_by_next_token raise
ConfigurationError == "MWSError"

(***************************************************************************)
(* The state after nothing has been constructed or called.                 *)
(***************************************************************************)
Init ==
    /\ client = NoClient
    /\ call = NoCall
    /\ req = NoReq
    /\ response = NoResponse
    /\ outcome = NoOutcome
    /\ parsed = NoParsed
    /\ wire = NoWire
    /\ nSigned = 0
    /\ nHttp = 0
    /\ xml = NoXml

\* a call leaves the effect e of make_request; only MaxRequests requests are sent
Leaves(e) ==
    /\ nHttp + e.sent <= MaxRequests
    /\ req' = e.req
    /\ response' = e.response
    /\ outcome' = e.outcome
    /\ parsed' = e.parsed
    /\ wire' = e.wire
    /\ nSigned' = nSigned + e.sent
    /\ nHttp' = nHttp + e.sent

\* a call that raises before make_request is entered
RaisesEarly(exc, msg) ==
    /\ req' = NoReq
    /\ response' = NoResponse
    /\ outcome' = Raise(exc, msg, FALSE)
    /\ parsed' = NoParsed
    /\ wire' = NoWire
    /\ UNCHANGED <<nSigned, nHttp>>

\* MWS.__init__(access_key, secret_key, account_id, region, uri, version, auth_token,
\* proxy) of class cls; an unknown region raises and leaves no instance
Construct(cls, access_key, secret_key, account_id, region, uri, version, auth_token, proxy) ==
    /\ ~client.constructed
    /\ call' = [NoCall EXCEPT !.op = "__init__", !.region = region]
    /\ IF region \in DOMAIN Marketplaces
       THEN /\ client' = [constructed |-> TRUE,
                          cls |-> cls,
                          access_key |-> access_key,
                          secret_key |-> secret_key,
                          account_id |-> account_id,
                          auth_token |-> auth_token,
                          version |-> IF Truthy(version) THEN version
                                      ELSE ClassAttrs[cls].VERSION,
                          uri |-> IF Truthy(uri) THEN uri ELSE ClassAttrs[cls].URI,
                          domain |-> Marketplaces[region].endpoint,
                          proxy |-> proxy,
                          test_request_params |-> FALSE]
            /\ outcome' = NoOutcome
       ELSE /\ client' = client
            /\ outcome' = Raise(ConfigurationError,
                                <<"Incorrect region supplied: ", region>>, FALSE)
    /\ req' = NoReq
    /\ response' = NoResponse
    /\ parsed' = NoParsed
    /\ wire' = NoWire
    /\ UNCHANGED <<nSigned, nHttp, xml>>

\* the testing flag, which the tests of the package set on an instance
SetTestRequestParams(flag) ==
    /\ client.constructed
    /\ client.test_request_params # flag
    /\ client' = [client EXCEPT !.test_request_params = flag]
    /\ UNCHANGED <<call, req, response, outcome, parsed, wire, nSigned, nHttp, xml>>

\* a direct call of MWS.make_request; the server answers resp if it is asked
\* (requests.request returns: a connection failure is outside the model)
MakeRequest(action, extra_data, method, kwargs, resp) ==
    /\ client.constructed
    /\ call' = [NoCall EXCEPT !.op = "make_request", !.action = action]
    /\ Leaves(make_request(client, action, extra_data, method, kwargs, resp))
    /\ UNCHANGED <<client, xml>>

\* MWS.get_service_status(): make_request(extra_data=dict(Action="GetServiceStatus")),
\* a call without the positional argument action, which Python refuses
GetServiceStatus ==
    /\ client.constructed
    /\ call' = [NoCall EXCEPT !.op = "get_service_status"]
    /\ RaisesEarly("TypeError",
                   <<"make_request() missing 1 required positional argument: 'action'">>)
    /\ UNCHANGED <<client, xml>>

\* MWS.action_by_next_token(action, next_token)
ActionByNextToken(action, next_token, resp) ==
    /\ client.constructed
    /\ call' = [NoCall EXCEPT !.op = "action_by_next_token", !.action = action,
                              !.next_token = next_token]
    /\ IF action \notin ClassAttrs[client.cls].NEXT_TOKEN_OPERATIONS
       THEN RaisesEarly(ConfigurationError,
                        action \o <<" action not listed in this API's NEXT_TOKEN_OPERATIONS. ">>)
       ELSE Leaves(make_request(client, action \o <<"ByNextToken">>,
                                "NextToken" :> Str(next_token), "POST", NoKwargs, resp))
    /\ UNCHANGED <<client, xml>>

\* MWS.generic_request(action, parameters, method, **kwargs); parameters is a dict
\* (is_dict) or something else
GenericRequest(action, is_dict, parameters, method, kwargs, resp) ==
    /\ client.constructed
    /\ call' = [NoCall EXCEPT !.op = "generic_request", !.action = action,
                              !.is_dict = is_dict, !.parameters = parameters]
    /\ CASE ~Truthy(client.uri) \/ client.uri = <<"/">> ->
                RaisesEarly(GenericRequestError, <<"Cannot send generic request to URI ">> \o client.uri)
         [] Truthy(client.uri) /\ client.uri # <<"/">> /\ ~is_dict ->
                RaisesEarly(GenericRequestError, <<"parameters must be a dict.">>)
         [] OTHER ->
                Leaves(make_request(client, action, to_dict(parameters), method, kwargs, resp))
    /\ UNCHANGED <<client, xml>>

(***************************************************************************)
(* mws/utils/xml.py.  A document is its root element: a name with an       *)
(* optional prefix, attributes, text and child elements; names and text    *)
(* are sequences of tokens, so that "ns2:Name" is <<"ns2:", "Name">>.      *)
(* A parsed value is a node [kind, text, items]: None, a string, or a      *)
(* mapping as the sequence of its (key, value) entries in insertion order. *)
(***************************************************************************)
NoneNode == [kind |-> "none", text |-> <<>>, items |-> <<>>]

TextNode(t) == [kind |-> "text", text |-> t, items |-> <<>>]

DictNode(items) == [kind |-> "dict", text |-> <<>>, items |-> items]

Entry(k, v) == [key |-> k, val |-> v]

\* the pattern of remove_xml_namespaces: xmlns="..." | xmlns:ns2="..." | ns2: | xml:
NamespaceToken(tok) == tok \in {"xmlns", "xmlns:ns2", "ns2:", "xml:"}

StripTokens(s) == SelectSeq(s, LAMBDA tok : ~NamespaceToken(tok))

\* remove_xml_namespaces(data)
remove_xml_namespaces(doc) ==
    [wellformed |-> doc.wellformed,
     name |-> StripTokens(doc.name),
     attrs |-> SelectSeq(doc.attrs, LAMBDA a : ~NamespaceToken(a)),
     text |-> StripTokens(doc.text),
     children |-> [i \in DOMAIN doc.children |->
                      [name |-> StripTokens(doc.children[i].name),
                       text |-> StripTokens(doc.children[i].text)]]]

\* xmltodict's value of an element without attributes and children
LeafValue(text, force_cdata) ==
    IF text = <<>> THEN NoneNode
    ELSE IF force_cdata THEN DictNode(<<Entry(<<"#text">>, TextNode(text))>>)
    ELSE TextNode(text)

\* xmltodict.parse(data, force_cdata=...): [exc, xmldict]; the mapping of a
\* well-formed document has the root element's name as its only key
xmltodict_parse(doc, force_cdata) ==
    LET attrs == [i \in DOMAIN doc.attrs |->
                    Entry(<<"@", doc.attrs[i]>>, TextNode(<<"urn:value">>))]
        children == [i \in DOMAIN doc.children |->
                        Entry(doc.children[i].name,
                              LeafValue(doc.children[i].text, force_cdata))]
        cdata == IF doc.text = <<>> THEN <<>>
                 ELSE <<Entry(<<"#text">>, TextNode(doc.text))>>
        value == IF doc.attrs = <<>> /\ doc.children = <<>>
                 THEN LeafValue(doc.text, force_cdata)
                 ELSE DictNode(attrs \o children \o cdata)
    IN  IF doc.wellformed
        THEN [exc |-> "", xmldict |-> <<Entry(doc.name, value)>>]
        ELSE [exc |-> "ExpatError", xmldict |-> <<>>]

\* dict.get(key, default) on a mapping given as its entries
DictGet(entries, key, default) ==
    IF \E i \in DOMAIN entries : entries[i].key = key
    THEN entries[CHOOSE i \in DOMAIN entries : entries[i].key = key].val
    ELSE default

\* the lookup that always falls back to its default, the whole mapping
first_key_value_default(xmldict) ==
    IF xmldict = <<>>
    THEN [exc |-> "IndexError", result |-> NoneNode]
    ELSE [exc |-> "", result |-> DictNode(xmldict)]

\* xmldict.get(list(xmldict.keys())[0], xmldict): [exc, result]
first_key_value(xmldict) ==
    IF xmldict = <<>>
    THEN [exc |-> "IndexError", result |-> NoneNode]
    ELSE [exc |-> "", result |-> DictGet(xmldict, xmldict[1].key, DictNode(xmldict))]

\* mws_xml_to_dict(data, force_cdata=...)
mws_xml_to_dict(doc, force_cdata) ==
    LET data == remove_xml_namespaces(doc)
        got == xmltodict_parse(data, force_cdata)
        final == first_key_value(got.xmldict)
    IN  [called |-> TRUE,
         doc |-> doc,
         stripped |-> data,
         xmldict |-> got.xmldict,
         exc |-> IF got.exc # "" THEN got.exc ELSE final.exc,
         result |-> IF got.exc # "" THEN NoneNode ELSE final.result]

MwsXmlToDict(doc, force_cdata) ==
    /\ xml' = mws_xml_to_dict(doc, force_cdata)
    /\ UNCHANGED clientVars

(***************************************************************************)
(* The arguments and responses the calls are made with.                    *)
(***************************************************************************)
Actions == {<<"ListOrders">>, <<"Get Report">>, <<>>}

Methods == {"GET", "POST"}

Kwargs ==
    {NoKwargs,
     [has_result_key |-> TRUE, result_key |-> <<"CustomResult">>, has_timeout |-> TRUE,
      timeout |-> 30, body |-> <<"<AmazonEnvelope/>">>,
      extra_headers |-> "Content-Type" :> <<"text/xml">>]}

ExtraDatas ==
    {EmptyDict,
     "Action" :> Str(<<"GetServiceStatus">>),
     "Action" :> None,
     "NextToken" :> Str(<<"abc==">>),
     ("MarketplaceId" :> Str(<<>>)) @@ ("Acknowledged" :> Bool("True")),
     "MarketplaceId.Id" :> List("ATVPDKIKX0DER"),
     "MWSAuthToken" :> Str(<<"amzn.mws.other">>),
     "Signature" :> Str(<<"forged">>)}

NextTokens == {<<"abc==">>, <<>>}

\* the parameters argument of generic_request: [is_dict, parameters]
ParameterArgs ==
    {[is_dict |-> FALSE, parameters |-> EmptyDict],
     [is_dict |-> TRUE, parameters |-> EmptyDict],
     [is_dict |-> TRUE, parameters |-> "Action" :> Str(<<"ListOrders">>)],
     [is_dict |-> TRUE, parameters |-> "MarketplaceId.Id" :> List("ATVPDKIKX0DER")]}

Bodies == {"XmlBytes", "XmlText", "CsvText", "Binary"}

OkResponse == [status |-> 200, body |-> "XmlBytes", md5 |-> "absent"]

\* a 4xx or 5xx body is never parsed: its text alone matters
Responses ==
    [status : {100, 200, 304}, body : Bodies, md5 : {"absent", "match", "mismatch"}]
    \cup [status : {404, 503}, body : {"XmlBytes", "CsvText"}, md5 : {"absent"}]

(***************************************************************************)
(* Spec: clients of every configuration, each call with every argument,    *)
(* the server answering 200 with an XML body.                              *)
(***************************************************************************)
Next ==
    \/ \E cls \in {"MWS", "Orders"}, access_key \in {<<"AKIAEXAMPLE">>, <<>>},
          account_id \in {<<"A1SELLER">>, <<>>}, region \in {"US", "ZZ"},
          auth_token \in {<<>>, <<"amzn.mws.token">>} :
            Construct(cls, access_key, <<"secret">>, account_id, region, <<>>, <<>>,
                      auth_token, <<>>)
    \/ \E flag \in BOOLEAN : SetTestRequestParams(flag)
    \/ \E action \in Actions, extra_data \in ExtraDatas :
            MakeRequest(action, extra_data, "GET", NoKwargs, OkResponse)
    \/ GetServiceStatus
    \/ \E action \in Actions, next_token \in NextTokens :
            ActionByNextToken(action, next_token, OkResponse)
    \/ \E p \in ParameterArgs, method \in Methods :
            GenericRequest(<<"ListOrders">>, p.is_dict, p.parameters, method, NoKwargs,
                           OkResponse)

Spec == Init /\ [][Next]_vars

(***************************************************************************)
(* DispatchSpec: a client with full credentials, the testing flag off, and *)
(* the server answering with every response.                               *)
(***************************************************************************)
DispatchNext ==
    \/ \E cls \in {"MWS", "Orders"}, region \in {"UK", "ZZ"},
          uri \in {<<>>, <<"/Reports/2009-01-01">>} :
            Construct(cls, <<"AKIAEXAMPLE">>, <<"secret">>, <<"A1SELLER">>, region, uri,
                      <<"2013-09-01">>, <<>>, <<"user:password@10.0.0.1:8080">>)
    \/ \E action \in {<<"ListOrders">>}, kwargs \in Kwargs, resp \in Responses,
          extra_data \in {EmptyDict, "Action" :> Str(<<"ListOrders">>),
                          "Action" :> Str(<<"GetServiceStatus">>)} :
            MakeRequest(action, extra_data, "GET", kwargs, resp)
    \/ GetServiceStatus
    \/ \E action \in {<<"ListOrders">>, <<"GetReport">>}, resp \in Responses :
            ActionByNextToken(action, <<"abc==">>, resp)
    \/ \E p \in ParameterArgs, resp \in Responses :
            GenericRequest(<<"ListOrders">>, p.is_dict, p.parameters, "POST", NoKwargs, resp)

DispatchSpec == Init /\ [][DispatchNext]_vars

(***************************************************************************)
(* XmlSpec: mws_xml_to_dict on every document of the bounded shapes.       *)
(***************************************************************************)
Prefixes == {<<>>, <<"ns2:">>, <<"ns3:">>}

Texts == {<<>>, <<"GREEN">>, <<"ns2:", "GREEN">>}

ChildLists ==
    {<<>>,
     <<[name |-> <<"Status">>, text |-> <<"GREEN">>]>>,
     <<[name |-> <<"ns2:", "Status">>, text |-> <<"GREEN">>],
       [name |-> <<"Timestamp">>, text |-> <<>>]>>}

Documents ==
    {[wellformed |-> w, name |-> p \o <<n>>, attrs |-> a, text |-> t, children |-> c] :
        w \in BOOLEAN, p \in Prefixes,
        n \in {"GetServiceStatusResponse", "ErrorResponse"},
        a \in {<<>>, <<"xmlns">>, <<"xmlns:xsi">>}, t \in Texts, c \in ChildLists}

XmlNext == \E doc \in Documents, force_cdata \in BOOLEAN : MwsXmlToDict(doc, force_cdata)

XmlSpec == Init /\ [][XmlNext]_vars

(***************************************************************************)
(* The claims.                                                             *)
(***************************************************************************)
AccountKey == ClassAttrs[client.cls].ACCOUNT_TYPE

DefaultKeys ==
    {"Action", "AWSAccessKeyId", AccountKey, "SignatureVersion", "Timestamp", "Version",
     "SignatureMethod"}

Is2xx(status) == 200 <= status /\ status <= 299

\* what the claims say of the cleaned parameter set p of a make_request call for
\* the action named name
HasDefaults(p, name) ==
    /\ DefaultKeys \subseteq DOMAIN p
    /\ p["Action"] = name
    /\ p["SignatureVersion"] = <<"2">>
    /\ p["SignatureMethod"] = <<"HmacSHA256">>
    /\ ("MWSAuthToken" \in DOMAIN p) <=> Truthy(client.auth_token)

\* the cleaned parameter set is the one returned (testing flag) or signed and sent
ReturnedOrSigned(p) ==
    /\ outcome.kind = "params" => outcome.value = p
    /\ response.received =>
            /\ wire.description = {<<k, p[k]>> : k \in DOMAIN p}
            /\ wire.signature.description = wire.description

\* C1, as stated: the parameter set every make_request call cleans and then signs
\* or returns has Action equal to the action passed, AWSAccessKeyId, the account id
\* under ACCOUNT_TYPE, SignatureVersion "2", Timestamp, Version and SignatureMethod
\* "HmacSHA256", and has MWSAuthToken exactly when auth_token is non-empty --
\* whatever the action, the extra_data and the credentials.
C1_DefaultsInEveryRequest ==
    req.cleaned => HasDefaults(req.params, req.action) /\ ReturnedOrSigned(req.params)

\* C1, amended: the same holds of every make_request call whose action, access key
\* and account id are non-empty and whose extra_data has no entry under one of the
\* default names or MWSAuthToken; Action is the percent-encoded action name.
C1_DefaultsUnlessOverriddenOrEmpty ==
    ( /\ req.cleaned
      /\ (DOMAIN req.extra_data) \cap (DefaultKeys \cup {"MWSAuthToken"}) = {}
      /\ Truthy(req.action)
      /\ Truthy(client.access_key)
      /\ Truthy(client.account_id) )
    => HasDefaults(req.params, quote(req.action)) /\ ReturnedOrSigned(req.params)

\* C1's case: a request with extra parameters of a client with an auth token, sent
C1_Witness ==
    /\ req.cleaned
    /\ response.received
    /\ "NextToken" \in DOMAIN req.extra_data
    /\ Truthy(req.action)
    /\ Truthy(client.access_key)
    /\ Truthy(client.account_id)
    /\ Truthy(client.auth_token)
    /\ "MWSAuthToken" \in DOMAIN req.params

\* C2: get_service_status() invokes make_request for the action "GetServiceStatus"
\* with no extra parameters and does not fail before a request is assembled; with
\* the testing flag on it returns the default parameters of that action.
C2_ServiceStatusRequestsGetServiceStatus ==
    call.op = "get_service_status" =>
        /\ req.entered
        /\ req.action = <<"GetServiceStatus">>
        /\ req.extra_data = EmptyDict
        /\ client.test_request_params =>
                outcome.kind = "params" /\ outcome.value["Action"] = <<"GetServiceStatus">>

\* C3: action_by_next_token(action, next_token) raises an MWSError naming the action
\* and assembles no request when the action is not in NEXT_TOKEN_OPERATIONS;
\* otherwise it dispatches one POST request with Action = action + "ByNextToken"
\* and NextToken = next_token as the only extra parameter, and returns the parsed
\* result of that request.
C3_NextTokenGatingAndDispatch ==
    call.op = "action_by_next_token" =>
        IF call.action \notin ClassAttrs[client.cls].NEXT_TOKEN_OPERATIONS
        THEN /\ outcome.kind = "raise"
             /\ outcome.exc = "MWSError"
             /\ SubSeq(outcome.msg, 1, Len(call.action)) = call.action
             /\ ~req.entered
             /\ ~response.received
        ELSE /\ req.entered
             /\ req.method = "POST"
             /\ req.action = call.action \o <<"ByNextToken">>
             /\ req.extra_data = ("NextToken" :> Str(call.next_token))
             /\ response.received
             /\ wire.method = "POST"
             /\ Is2xx(response.status) => outcome.kind = "parsed"

\* the configuration and encoding failures of the claim C4, by the call that fails
UnknownRegion == call.op = "__init__" /\ call.region \notin DOMAIN Marketplaces

UndeclaredNextTokenAction ==
    /\ call.op = "action_by_next_token"
    /\ call.action \notin ClassAttrs[client.cls].NEXT_TOKEN_OPERATIONS

GenericOnDefaultPath == call.op = "generic_request" /\ client.uri = <<"/">>

GenericWithoutMapping == call.op = "generic_request" /\ ~call.is_dict

CleaningFailed == req.entered /\ ~req.cleaned

Raised(exc) == outcome.kind = "raise" /\ outcome.exc = exc

\* C4, as stated: an unknown region, an undeclared next-token action, a generic
\* request on the default path "/", a generic request whose parameters are not a
\* mapping, and a value that fails cleaning all raise MWSError, never a built-in
\* error kind.
C4_OnlyMWSErrorRaised ==
    (UnknownRegion \/ UndeclaredNextTokenAction \/ GenericOnDefaultPath
        \/ GenericWithoutMapping \/ CleaningFailed) => Raised("MWSError")

\* C4, amended: an unknown region, an undeclared next-token action and a value that
\* fails cleaning raise MWSError; generic_request on the default path "/" or with
\* parameters that are not a mapping raises the built-in ValueError.
C4_MWSErrorExceptGenericArguments ==
    /\ (UnknownRegion \/ UndeclaredNextTokenAction \/ CleaningFailed) => Raised("MWSError")
    /\ (GenericOnDefaultPath \/ GenericWithoutMapping) => Raised("ValueError")

\* C4's case: a value that fails scalar cleaning has been passed to make_request
C4_Witness ==
    /\ CleaningFailed
    /\ \E k \in DOMAIN req.extra_data : req.extra_data[k].t = "list"
    /\ Raised("MWSError")

\* the transport error of make_request: MWSError with the body text as its message
\* and the response attached, and nothing returned
TransportError ==
    /\ outcome = Raise("MWSError", <<response.body>>, TRUE)
    /\ parsed = NoParsed

\* C5, as stated: a dispatched request whose response status is outside 200-299
\* (1xx and 3xx as well as 4xx and 5xx) raises the transport error; a 2xx status
\* raises none.
C5_Non2xxRaisesTransportError ==
    response.received =>
        /\ ~Is2xx(response.status) => TransportError
        /\ Is2xx(response.status) => ~outcome.response

\* C5, amended: a dispatched request whose response status is 4xx or 5xx raises
\* the transport error; any other status (1xx, 2xx, 3xx) raises none.
C5_ErrorStatusRaisesTransportError ==
    response.received =>
        /\ (400 <= response.status /\ response.status <= 599) => TransportError
        /\ response.status < 400 => ~outcome.response /\ outcome.msg # <<response.body>>

\* C5's case: the server has answered 503
C5_Witness ==
    /\ response.received
    /\ response.status = 503
    /\ TransportError

IntegrityError == outcome = Raise("MWSError", IntegrityMessage, FALSE)

\* C6: for a 2xx response whose result key could be computed, on every
\* interpretation path, a content-md5 header that differs from the MD5 of the body
\* raises the integrity error instead of returning a result; a header that matches
\* or is absent raises none.
C6_IntegrityCheckedOnEveryPath ==
    (response.received /\ Is2xx(response.status) /\ outcome.exc # "TypeError") =>
        IF response.md5 = "mismatch"
        THEN IntegrityError /\ parsed = NoParsed
        ELSE ~IntegrityError

\* the source values of the parameters of the make_request call of the next state
SourceParams == Update(get_default_params(client, req'.action), req'.extra_data)

\* C7: while the testing flag is on, a call computes no signature and issues no
\* HTTP request, and a call that goes through make_request returns the merged and
\* cleaned parameters: the keys whose source value is neither None nor "", each
\* with its cleaned value, and no Signature key of the library's own (a value no
\* cleaning accepts raises MWSError instead).
C7_TestingFlagReturnsParams ==
    [][(client.test_request_params /\ client' = client) =>
        /\ nSigned' = nSigned
        /\ nHttp' = nHttp
        /\ ~response'.received
        /\ wire' = NoWire
        /\ req'.entered =>
            IF \E k \in DOMAIN SourceParams : SourceParams[k].t = "list"
            THEN outcome'.kind = "raise" /\ outcome'.exc = "MWSError"
            ELSE /\ outcome'.kind = "params"
                 /\ DOMAIN outcome'.value =
                        {k \in DOMAIN SourceParams :
                            SourceParams[k] \notin {None, Str(<<>>)}}
                 /\ \A k \in DOMAIN outcome'.value :
                        outcome'.value[k] = clean_param_value(SourceParams[k]).value
                 /\ "Signature" \in DOMAIN outcome'.value =>
                        "Signature" \in DOMAIN req'.extra_data
    ]_vars

\* C7's case: with the flag on, action_by_next_token for a declared action has
\* returned its parameters, the empty token dropped
C7_Witness ==
    /\ client.test_request_params
    /\ call.op = "action_by_next_token"
    /\ outcome.kind = "params"
    /\ req.extra_data = ("NextToken" :> Str(<<>>))
    /\ "NextToken" \notin DOMAIN outcome.value
    /\ nHttp = 0

\* C8: for a 2xx response, computing the result key never fails, and the key is the
\* caller's result_key when given and otherwise action + "Result" of the action
\* argument.
C8_ResultKeyFromAction ==
    (response.received /\ Is2xx(response.status) /\ ~IntegrityError) =>
        /\ outcome.kind = "parsed"
        /\ parsed.result_key = IF req.kwargs.has_result_key
                               THEN req.kwargs.result_key
                               ELSE req.action \o <<"Result">>

\* the step of the fallback that a body's parse outcomes select
ExpectedStep ==
    CASE DictWrapper("bytes", response.body) = "" -> "DictWrapper(bytes)"
      [] DictWrapper("bytes", response.body) = "TypeError"
            /\ DictWrapper("text", response.body) = "" -> "DictWrapper(text)"
      [] OTHER -> "DataWrapper"

\* C9: every 2xx response (whose content hash does not fail) yields a result from
\* exactly one step of the fallback, the first that succeeds -- the XML/dict parse
\* of the bytes, of the text after a type failure, or the generic wrapper after a
\* structural failure -- never raises because the body is not XML, and has the
\* response attached.
C9_FallbackAlwaysReturns ==
    (response.received /\ Is2xx(response.status) /\ response.md5 # "mismatch") =>
        /\ outcome.kind = "parsed"
        /\ parsed.via = ExpectedStep
        /\ parsed.response

====
